---- MODULE Spec2Model ----
(***************************************************************************)
(* Order lifecycle and multi-warehouse stock allocation of Hemart          *)
(* (apps/api/src/services/order.service.ts).                               *)
(*                                                                         *)
(* The persisted tables are the variables orders, carts, stock, logs,      *)
(* transfers and history.  Every prisma.$transaction is one atomic step,   *)
(* except cancelExpiredOrders, whose read of the expired orders and whose  *)
(* per-order reversals are separate steps.  Columns that no handler reads  *)
(* back (names, prices, totals, addresses, descriptions) are left out.     *)
(***************************************************************************)
EXTENDS Integers, Sequences, FiniteSets, TLC

\* ---------------------------------------------------------------- bounds
MaxOrders == 2
MaxClock == 3
MaxQty == 2
\* orders of the runs that also check stock
MaxAllOrders == 1

\* ------------------------------------------------------- program constants
\* hold window of handleCheckout and shipping offset of uploadPaymentProof,
\* both 2 * 60 * 1000 ms; the clock of the model counts minutes
HoldWindow == 2
ShipOffset == 2

\* ------------------------------------------------------------ input sets
Products == {1, 2}
Warehouses == {1, 2, 3}
Users == {1, 2}
CheckoutUsers == {1}
CartIds == {1}
MissingCart == {3}
CheckoutWarehouses == {1}
Latitudes == {0, 3}
Sources == {"USER"}
BodyStatuses == {"PENDING"}
Files == {"proof"}

\* orderItems of a checkout and products of a stock check
ItemLists ==
  {<<[productId |-> 1, quantity |-> MaxQty]>>,
   <<[productId |-> 2, quantity |-> 1]>>,
   <<[productId |-> 1, quantity |-> 1], [productId |-> 2, quantity |-> 1]>>}

\* latitude of each warehouse (Warehouse.latitude); one axis stands for the
\* coordinate pair
whLatitude == [w \in Warehouses |-> 2 * (w - 1)]

VARIABLES
  warehouses,     \* Warehouse table: the ids that exist
  orders,         \* Order table, indexed by id (orders are never deleted)
  carts,          \* Cart table: id -> [userId, isActive]
  stock,          \* ProductStock table: <<productId, warehouseId>> -> stock
  logs,           \* StockTransferLog table, append-only
  transfers,      \* StockTransfer table
  history,        \* TransactionHistory table, append-only
  clock,          \* Date.now(), in minutes
  sweepPc,        \* cancelExpiredOrders: "idle", "read" or "writing"
  expiredOrders,  \* cancelExpiredOrders: ids returned by findMany
  sweepIdx,       \* cancelExpiredOrders: orders of expiredOrders processed
  sweepNow,       \* cancelExpiredOrders: const now
  canceledCount,  \* cancelExpiredOrders: let canceledCount
  sweepFailed,    \* orders whose reversal threw in the running sweep
  sweepChanged,   \* orders whose paymentStatus the running sweep changed
  checkoutSnap,   \* stock before the checkout that was the latest operation
  call,           \* warehouse, products and coordinate the latest operation got
  txs,            \* checkout transactions that run statement by statement
  allocSnap,      \* stock and arguments of the successful checkAndMutateStock
                  \* that ran last, or last before the latest checkout
  last            \* the latest operation, its arguments and its outcome

dbvars == <<orders, carts, stock, logs, transfers, history>>
sweepvars == <<sweepPc, expiredOrders, sweepIdx, sweepNow, canceledCount, sweepFailed,
               sweepChanged>>
vars == <<warehouses, orders, carts, stock, logs, transfers, history, clock,
          sweepPc, expiredOrders, sweepIdx, sweepNow, canceledCount,
          sweepFailed, sweepChanged, checkoutSnap, call, txs, allocSnap, last>>

\* the persisted tables as one value, as a transaction sees them
DB == [orders |-> orders, carts |-> carts, stock |-> stock, logs |-> logs,
       transfers |-> transfers, history |-> history]

SetDB(d) ==
  /\ orders' = d.orders
  /\ carts' = d.carts
  /\ stock' = d.stock
  /\ logs' = d.logs
  /\ transfers' = d.transfers
  /\ history' = d.history

\* the whole stock of the source instead of Math.min(stock, currentDeficit)
MinFirst(a, b) == a

Min(a, b) == IF a < b THEN a ELSE b
Abs(a) == IF a < 0 THEN 0 - a ELSE a

\* outcome of the body of a transaction: ok is FALSE when a statement threw,
\* db holds the writes made up to that point
Ok(d) == [ok |-> TRUE, reason |-> "none", db |-> d]
Thrown(d, why) == [ok |-> FALSE, reason |-> why, db |-> d]

\* a transaction that keeps the writes of a callback that threw
TransactionNoRollback(before, r) == r.db

\* prisma.$transaction: the writes are committed when the callback returns
\* and rolled back when it throws
Transaction(before, r) == IF r.ok THEN r.db ELSE before

\* ------------------------------------------------------------- warehouses
\* utils/distance.utils calculateDistance, on the one axis of the model
calculateDistance(lat1, lat2) == Abs(lat1 - lat2)

\* warehouse.service findNearestWarehouse: the nearest existing warehouse,
\* the first minimum found on a tie, 0 (null) when there is no warehouse
findNearestWarehouse(lat) ==
  IF warehouses = {} THEN 0
  ELSE CHOOSE w \in warehouses :
         \A v \in warehouses :
           \/ calculateDistance(lat, whLatitude[w]) < calculateDistance(lat, whLatitude[v])
           \/ /\ calculateDistance(lat, whLatitude[w]) = calculateDistance(lat, whLatitude[v])
              /\ w <= v

\* ----------------------------------------------------------- ProductStock
HasRow(st, p, w) == <<p, w>> \in DOMAIN st

\* productStock.updateMany({where: {productId, warehouseId},
\*                          data: {stock: {decrement}}}): no row, no write
DecrementMany(st, p, w, q) ==
  IF HasRow(st, p, w) THEN [st EXCEPT ![<<p, w>>] = @ - q] ELSE st

\* an increment by one instead of by the quantity of the item
IncrementByOne(st, p, w, q) == [st EXCEPT ![<<p, w>>] = @ + 1]

\* productStock.update({data: {stock: {increment}}}) on an existing row
IncrementStock(st, p, w, q) == [st EXCEPT ![<<p, w>>] = @ + q]

\* productStock.update({data: {stock: {decrement}}}) on an existing row
DecrementStock(st, p, w, q) == [st EXCEPT ![<<p, w>>] = @ - q]

\* a created row that starts empty instead of holding the transferred quantity
CreateStockEmpty(st, p, w, q) ==
  [k \in DOMAIN st \cup {<<p, w>>} |-> IF k = <<p, w>> THEN 0 ELSE st[k]]

\* productStock.create({data: {stock, productId, warehouseId}})
CreateStock(st, p, w, q) ==
  [k \in DOMAIN st \cup {<<p, w>>} |-> IF k = <<p, w>> THEN q ELSE st[k]]

LogEntry(type, p, w, q) ==
  [transactionType |-> type, productId |-> p, warehouseId |-> w, quantity |-> q]

HistoryEntry(type, u, o) == [type |-> type, userId |-> u, orderId |-> o]

\* --------------------------------------------------------- handleCheckout
\* the for loop over orderItems: decrement the stock of the body's
\* warehouse, then log OUT when the row exists
RECURSIVE CheckoutItems(_, _, _)
CheckoutItems(d, items, w) ==
  IF items = <<>> THEN d
  ELSE LET item == Head(items)
           st1 == DecrementMany(d.stock, item.productId, w, item.quantity)
           lg1 == IF HasRow(st1, item.productId, w)
                  THEN Append(d.logs, LogEntry("OUT", item.productId, w, item.quantity))
                  ELSE d.logs
       IN CheckoutItems([d EXCEPT !.stock = st1, !.logs = lg1], Tail(items), w)

NewOrder(body, now) ==
  [paymentStatus |-> body.paymentStatus,
   paymentProof |-> "NULL",
   expirePayment |-> now + HoldWindow,
   shippedAt |-> 0,
   warehouseId |-> body.warehouseId,
   cartId |-> body.cartId,
   cancellationSource |-> "NULL",
   items |-> body.orderItems]

\* the callback of the transaction of handleCheckout
handleCheckoutTx(d, id, body, now) ==
  LET oid == Len(d.orders) + 1
      d1 == [d EXCEPT !.orders = Append(@, NewOrder(body, now))]
      d2 == CheckoutItems(d1, body.orderItems, body.warehouseId)
  IN IF body.cartId \notin DOMAIN d2.carts
     THEN Thrown(d2, "cart")
     ELSE Ok([d2 EXCEPT !.carts[body.cartId].isActive = FALSE,
                        !.history = Append(@, HistoryEntry("PURCHASE", id, oid))])

Bodies ==
  [paymentStatus : BodyStatuses, warehouseId : CheckoutWarehouses,
   cartId : CartIds \cup MissingCart, orderItems : ItemLists,
   latitude : Latitudes]

\* checkoutSnap: the ProductStock table before the latest successful checkout,
\* kept while no other operation ran; closed once that order was cancelled
NoSnap == [orderId |-> 0, stock |-> << >>, closed |-> FALSE]
Snap(o, st) == [orderId |-> o, stock |-> st, closed |-> FALSE]
CloseSnap(o, ok) ==
  IF ok /\ checkoutSnap.orderId = o /\ ~checkoutSnap.closed
  THEN [checkoutSnap EXCEPT !.closed = TRUE]
  ELSE NoSnap

NoAlloc == [taken |-> FALSE, stock |-> << >>, warehouseId |-> 0, products |-> <<>>]
AllocSnap(st, w, ps) == [taken |-> TRUE, stock |-> st, warehouseId |-> w, products |-> ps]

NoCall == [warehouseId |-> 0, products |-> <<>>, latitude |-> 0]
Call(w, ps, lat) == [warehouseId |-> w, products |-> ps, latitude |-> lat]

Op(op, ok, reason, o, u) ==
  [op |-> op, ok |-> ok, reason |-> reason, orderId |-> o, userId |-> u]

handleCheckout(id, body) ==
  /\ UNCHANGED allocSnap
  /\ UNCHANGED txs
  /\ sweepPc # "writing"
  /\ Len(orders) < MaxOrders
  /\ call' = Call(body.warehouseId, body.orderItems, body.latitude)
  /\ IF findNearestWarehouse(body.latitude) = 0
     THEN /\ UNCHANGED dbvars
          /\ checkoutSnap' = NoSnap
          /\ last' = Op("handleCheckout", FALSE, "warehouse", 0, id)
     ELSE LET r == handleCheckoutTx(DB, id, body, clock)
          IN /\ SetDB(Transaction(DB, r))
             /\ checkoutSnap' = IF r.ok THEN Snap(Len(orders) + 1, stock) ELSE NoSnap
             /\ last' = Op("handleCheckout", r.ok, r.reason,
                           IF r.ok THEN Len(orders) + 1 ELSE 0, id)
  /\ UNCHANGED <<warehouses, clock, sweepvars>>

\* ------------------------------------- handleCheckout, statement by statement
\* Two handleCheckout requests whose transactions are open at the same time.
\* The statements before the loop (order.create, orderItem.createMany) touch
\* no row another checkout touches and take effect at the commit; each
\* productStock.updateMany is a step of its own. The storage layer holds the
\* lock of an updated row until the transaction ends, so an updateMany waits
\* while another open transaction has updated the same row.
TxIds == {1, 2}
IdleTx == [state |-> "idle", id |-> 0, body |-> << >>, now |-> 0,
           seen |-> << >>, done |-> <<>>, left |-> <<>>, overlap |-> FALSE]

OpenTxs == {t \in TxIds : txs[t].state = "open"}

\* rows of ProductStock the open transaction t has updated and holds locked
LockedBy(t) ==
  {<<txs[t].done[i].productId, txs[t].body.warehouseId>> : i \in 1..Len(txs[t].done)}
    \cap DOMAIN stock

\* the rollback of the updateMany statements of a transaction
RECURSIVE UndoItems(_, _, _)
UndoItems(st, items, w) ==
  IF items = <<>> THEN st
  ELSE LET item == Head(items)
       IN UndoItems(IF HasRow(st, item.productId, w)
                    THEN [st EXCEPT ![<<item.productId, w>>] = @ + item.quantity]
                    ELSE st,
                    Tail(items), w)

\* the stockTransferLog.create of the loop, for the items whose row exists
RECURSIVE ItemLogs(_, _, _)
ItemLogs(st, items, w) ==
  IF items = <<>> THEN <<>>
  ELSE (IF HasRow(st, Head(items).productId, w)
        THEN <<LogEntry("OUT", Head(items).productId, w, Head(items).quantity)>>
        ELSE <<>>) \o ItemLogs(st, Tail(items), w)

\* a write of the stock the transaction saw when it began, less the quantity
UpdateRowFromRead(st, seen, p, w, q) ==
  IF HasRow(st, p, w) THEN [st EXCEPT ![<<p, w>>] = seen[<<p, w>>] - q] ELSE st

\* productStock.updateMany with data: {stock: {decrement: item.quantity}}: the
\* storage layer computes the new stock from the row st holds when the
\* statement runs, not from the table seen when the transaction began
UpdateRow(st, seen, p, w, q) == DecrementMany(st, p, w, q)

\* the request up to the start of the loop: expirePayment, findNearestWarehouse
\* and the opening of the transaction
TxBegin(t, id, body) ==
  /\ UNCHANGED allocSnap
  /\ txs[t].state = "idle"
  /\ findNearestWarehouse(body.latitude) # 0
  /\ txs' = [u \in TxIds |->
               IF u = t
               THEN [state |-> "open", id |-> id, body |-> body, now |-> clock,
                     seen |-> stock, done |-> <<>>, left |-> body.orderItems,
                     overlap |-> OpenTxs # {}]
               ELSE IF txs[u].state = "open" THEN [txs[u] EXCEPT !.overlap = TRUE]
               ELSE txs[u]]
  /\ UNCHANGED <<warehouses, dbvars, clock, sweepvars, checkoutSnap, call, last>>

\* one iteration of the loop: productStock.updateMany decrements the row as
\* it is when the statement runs
TxItem(t) ==
  /\ UNCHANGED allocSnap
  /\ txs[t].state = "open"
  /\ txs[t].left # <<>>
  /\ LET item == Head(txs[t].left)
         w == txs[t].body.warehouseId
     IN /\ \A u \in OpenTxs \ {t} : <<item.productId, w>> \notin LockedBy(u)
        /\ stock' = UpdateRow(stock, txs[t].seen, item.productId, w, item.quantity)
        /\ txs' = [txs EXCEPT ![t].done = Append(@, item), ![t].left = Tail(@)]
  /\ UNCHANGED <<warehouses, orders, carts, logs, transfers, history, clock,
                 sweepvars, checkoutSnap, call, last>>

\* cart.update, transactionHistory.create and the end of the transaction: the
\* commit, or the rollback when cart.update threw
TxEnd(t) ==
  /\ allocSnap' = NoAlloc
  /\ txs[t].state = "open"
  /\ txs[t].left = <<>>
  /\ LET body == txs[t].body
         oid == Len(orders) + 1
         ok == body.cartId \in DOMAIN carts
     IN /\ IF ok
           THEN /\ orders' = Append(orders, NewOrder(body, txs[t].now))
                /\ logs' = logs \o ItemLogs(stock, body.orderItems, body.warehouseId)
                /\ carts' = [carts EXCEPT ![body.cartId].isActive = FALSE]
                /\ history' = Append(history, HistoryEntry("PURCHASE", txs[t].id, oid))
                /\ UNCHANGED stock
           ELSE /\ stock' = UndoItems(stock, txs[t].done, body.warehouseId)
                /\ UNCHANGED <<orders, logs, carts, history>>
        /\ txs' = [txs EXCEPT ![t].state = IF ok THEN "committed" ELSE "rolledback"]
        /\ last' = Op("handleCheckout", ok, IF ok THEN "none" ELSE "cart",
                      IF ok THEN oid ELSE 0, txs[t].id)
        /\ call' = Call(body.warehouseId, body.orderItems, body.latitude)
  /\ checkoutSnap' = NoSnap
  /\ UNCHANGED <<warehouses, transfers, clock, sweepvars>>

\* ------------------------------------------------------------ cancellation
\* the for loop over the items of a cancelled order: productStock.update
\* throws when the row does not exist
RECURSIVE RestoreItems(_, _, _)
RestoreItems(d, items, w) ==
  IF items = <<>> THEN Ok(d)
  ELSE LET item == Head(items)
       IN IF ~HasRow(d.stock, item.productId, w)
          THEN Thrown(d, "stock")
          ELSE RestoreItems(
                 [d EXCEPT !.stock = IncrementStock(@, item.productId, w, item.quantity),
                           !.logs = Append(@, LogEntry("IN", item.productId, w, item.quantity))],
                 Tail(items), w)

\* a where clause without the paymentStatus condition
CancellableAnyStatus(d, userId, orderId) ==
  /\ orderId \in 1..Len(d.orders)
  /\ d.orders[orderId].paymentProof = "NULL"
  /\ d.carts[d.orders[orderId].cartId].userId = userId

\* where clause of the order.update of cancelOrder
Cancellable(d, userId, orderId) ==
  /\ orderId \in 1..Len(d.orders)
  /\ d.orders[orderId].paymentStatus = "PENDING"
  /\ d.orders[orderId].paymentProof = "NULL"
  /\ d.carts[d.orders[orderId].cartId].userId = userId

\* the callback of the transaction of cancelOrder
cancelOrderTx(d, userId, orderId, source) ==
  IF ~Cancellable(d, userId, orderId)
  THEN Thrown(d, "order")
  ELSE LET o == d.orders[orderId]
           d1 == [d EXCEPT !.orders[orderId].paymentStatus = "CANCELED",
                           !.orders[orderId].cancellationSource = source,
                           !.carts[o.cartId].isActive = TRUE]
           r == RestoreItems(d1, o.items, o.warehouseId)
       IN IF ~r.ok THEN r
          ELSE Ok([r.db EXCEPT !.history = Append(@, HistoryEntry("REFUND", userId, orderId))])

OrderIds == 1..MaxOrders

cancelOrder(userId, orderId, source) ==
  /\ allocSnap' = NoAlloc
  /\ UNCHANGED txs
  /\ sweepPc # "writing"
  /\ LET r == cancelOrderTx(DB, userId, orderId, source)
     IN /\ SetDB(Transaction(DB, r))
        /\ last' = Op("cancelOrder", r.ok, r.reason, orderId, userId)
        /\ call' = NoCall
        /\ checkoutSnap' = CloseSnap(orderId, r.ok)
  /\ UNCHANGED <<warehouses, clock, sweepvars>>

\* ----------------------------------------------------- cancelExpiredOrders
\* a comparison the wrong way round, expirePayment: {gt: now}
ExpiredReversed(o, now) ==
  /\ o.paymentStatus = "PENDING"
  /\ o.paymentProof = "NULL"
  /\ o.expirePayment > now

\* where clause of the findMany of cancelExpiredOrders
Expired(o, now) ==
  /\ o.paymentStatus = "PENDING"
  /\ o.paymentProof = "NULL"
  /\ o.expirePayment < now

RECURSIVE FindExpired(_, _, _)
FindExpired(os, i, now) ==
  IF i > Len(os) THEN <<>>
  ELSE (IF Expired(os[i], now) THEN <<i>> ELSE <<>>) \o FindExpired(os, i + 1, now)

\* const now = new Date(); expiredOrders = await tx.order.findMany(...)
SweepRead ==
  /\ allocSnap' = NoAlloc
  /\ UNCHANGED txs
  /\ sweepPc = "idle"
  /\ sweepPc' = "read"
  /\ sweepNow' = clock
  /\ expiredOrders' = FindExpired(orders, 1, clock)
  /\ sweepIdx' = 0
  /\ canceledCount' = 0
  /\ sweepFailed' = {}
  /\ sweepChanged' = {}
  /\ last' = Op("sweepRead", TRUE, "none", 0, 0)
  /\ call' = NoCall
  /\ UNCHANGED <<warehouses, dbvars, clock, checkoutSnap>>

\* the try block for one order of expiredOrders
cancelExpiredTry(d, orderId) ==
  LET o == d.orders[orderId]
      d1 == [d EXCEPT !.orders[orderId].paymentStatus = "CANCELED",
                      !.orders[orderId].cancellationSource = "SYSTEM",
                      !.carts[o.cartId].isActive = TRUE]
      r == RestoreItems(d1, o.items, o.warehouseId)
  IN IF ~r.ok THEN r
     ELSE Ok([r.db EXCEPT !.history =
                Append(@, HistoryEntry("REFUND", d.carts[o.cartId].userId, orderId))])

\* try { ... } catch (error) { console.error(...) }: the writes made before
\* the throw stay in the transaction, the loop goes on
CatchAndContinue(r) == r.db

\* a loop that a failed reversal ends
NextOrderAbort(idx, n, ok) == IF ok THEN idx + 1 ELSE n

\* position of the loop after one order
NextOrder(idx, n, ok) == idx + 1

\* one iteration of the loop over expiredOrders
SweepOrder ==
  /\ allocSnap' = NoAlloc
  /\ UNCHANGED txs
  /\ sweepPc \in {"read", "writing"}
  /\ sweepIdx < Len(expiredOrders)
  /\ LET oid == expiredOrders[sweepIdx + 1]
         r == cancelExpiredTry(DB, oid)
     IN /\ SetDB(CatchAndContinue(r))
        /\ canceledCount' = IF r.ok THEN canceledCount + 1 ELSE canceledCount
        /\ sweepFailed' = IF r.ok THEN sweepFailed ELSE sweepFailed \cup {oid}
        /\ sweepChanged' =
             IF orders'[oid].paymentStatus # orders[oid].paymentStatus
             THEN sweepChanged \cup {oid} ELSE sweepChanged
        /\ sweepIdx' = NextOrder(sweepIdx, Len(expiredOrders), r.ok)
        /\ last' = Op("sweepOrder", r.ok, r.reason, oid, 0)
        /\ call' = NoCall
        /\ checkoutSnap' = CloseSnap(oid, r.ok)
  /\ sweepPc' = "writing"
  /\ UNCHANGED <<warehouses, clock, expiredOrders, sweepNow>>

\* return canceledCount; the transaction commits
SweepReturn ==
  /\ allocSnap' = NoAlloc
  /\ UNCHANGED txs
  /\ sweepPc \in {"read", "writing"}
  /\ sweepIdx >= Len(expiredOrders)
  /\ sweepPc' = "idle"
  /\ last' = Op("sweepReturn", TRUE, "none", 0, 0)
  /\ call' = NoCall
  /\ checkoutSnap' = NoSnap
  /\ UNCHANGED <<warehouses, dbvars, clock, expiredOrders, sweepIdx, sweepNow,
                 canceledCount, sweepFailed, sweepChanged>>

\* ----------------------------------------------------- uploadPaymentProof
\* a lookup by id alone, without cart: {userId}
OwnedOrderAnyUser(d, userId, orderId) == orderId \in 1..Len(d.orders)

\* where clause of the findFirst of uploadPaymentProof
OwnedOrder(d, userId, orderId) ==
  /\ orderId \in 1..Len(d.orders)
  /\ d.carts[d.orders[orderId].cartId].userId = userId

uploadPaymentProofTx(d, userId, orderId, file, now) ==
  IF ~OwnedOrder(d, userId, orderId)
  THEN Thrown(d, "order")
  ELSE Ok([d EXCEPT !.orders[orderId].paymentProof = file,
                    !.orders[orderId].paymentStatus = "PAID",
                    !.orders[orderId].shippedAt = now + ShipOffset])

uploadPaymentProof(userId, orderId, file) ==
  /\ allocSnap' = NoAlloc
  /\ UNCHANGED txs
  /\ sweepPc # "writing"
  /\ LET r == uploadPaymentProofTx(DB, userId, orderId, file, clock)
     IN /\ SetDB(Transaction(DB, r))
        /\ last' = Op("uploadPaymentProof", r.ok, r.reason, orderId, userId)
        /\ call' = NoCall
  /\ checkoutSnap' = NoSnap
  /\ UNCHANGED <<warehouses, clock, sweepvars>>

\* ---------------------------------------------------- checkAndMutateStock
\* productStock.findMany({where: {productId, stock: {gt: 0},
\*                                NOT: {warehouseId}}}), in key order
RECURSIVE WarehousesWithStock(_, _, _, _)
WarehousesWithStock(st, p, target, w) ==
  IF w > Cardinality(Warehouses) THEN <<>>
  ELSE (IF HasRow(st, p, w) /\ w # target /\ st[<<p, w>>] > 0
        THEN <<[warehouseId |-> w, stock |-> st[<<p, w>>]]>>
        ELSE <<>>) \o WarehousesWithStock(st, p, target, w + 1)

\* a sort by descending distance, (a, b) => distanceB - distanceA
RECURSIVE InsertByDistanceDesc(_, _, _)
InsertByDistanceDesc(x, sorted, lat) ==
  IF sorted = <<>> THEN <<x>>
  ELSE IF calculateDistance(lat, whLatitude[x.warehouseId])
            > calculateDistance(lat, whLatitude[Head(sorted).warehouseId])
       THEN <<x>> \o sorted
       ELSE <<Head(sorted)>> \o InsertByDistanceDesc(x, Tail(sorted), lat)

\* warehousesWithStock.sort((a, b) => distanceA - distanceB): Array.sort is
\* stable, rows at the same distance keep their order
RECURSIVE InsertByDistance(_, _, _)
InsertByDistance(x, sorted, lat) ==
  IF sorted = <<>> THEN <<x>>
  ELSE IF calculateDistance(lat, whLatitude[x.warehouseId])
            < calculateDistance(lat, whLatitude[Head(sorted).warehouseId])
       THEN <<x>> \o sorted
       ELSE <<Head(sorted)>> \o InsertByDistance(x, Tail(sorted), lat)

RECURSIVE SortByDistance(_, _)
SortByDistance(rows, lat) ==
  IF rows = <<>> THEN <<>>
  ELSE InsertByDistance(rows[Len(rows)], SortByDistance(SubSeq(rows, 1, Len(rows) - 1), lat), lat)

TransferRecord(p, q) ==
  [productId |-> p, stockRequest |-> q, stockProcess |-> q, status |-> "COMPLETED"]

\* stockInWarehouse kept as it was found before the loop
FoundBeforePull(hasRow) == hasRow

\* stockInWarehouse after a pull: the row that was found, or the row that
\* productStock.create returned and the code assigned to it
FoundAfterPull(hasRow) == TRUE

\* the loop over sortedWarehouses; hasRow stands for stockInWarehouse being
\* set, currentDeficit is returned as deficit
RECURSIVE PullStock(_, _, _, _, _, _)
PullStock(d, p, target, sorted, currentDeficit, hasRow) ==
  IF sorted = <<>> \/ currentDeficit <= 0
  THEN [db |-> d, deficit |-> currentDeficit, hasRow |-> hasRow]
  ELSE LET src == Head(sorted)
           transferQuantity == Min(src.stock, currentDeficit)
           st1 == DecrementStock(d.stock, p, src.warehouseId, transferQuantity)
           st2 == IF hasRow THEN IncrementStock(st1, p, target, transferQuantity)
                  ELSE CreateStock(st1, p, target, transferQuantity)
           d1 == [d EXCEPT
                    !.transfers = Append(@, TransferRecord(p, transferQuantity)),
                    !.logs = @ \o <<LogEntry("OUT", p, src.warehouseId, transferQuantity),
                                    LogEntry("IN", p, target, transferQuantity)>>,
                    !.stock = st2]
       IN PullStock(d1, p, target, Tail(sorted), currentDeficit - transferQuantity,
                    FoundAfterPull(hasRow))

\* the callback of the transaction of checkAndMutateStock: the loop over
\* products
RECURSIVE checkAndMutateStockTx(_, _, _, _)
checkAndMutateStockTx(d, warehouseId, products, lat) ==
  IF products = <<>> THEN Ok(d)
  ELSE LET product == Head(products)
           p == product.productId
           hasRow == HasRow(d.stock, p, warehouseId)
           remainingQuantity == product.quantity
           availableStock == IF hasRow THEN d.stock[<<p, warehouseId>>] ELSE 0
           deficitQuantity == remainingQuantity - availableStock
           pulled == IF deficitQuantity > 0
                     THEN PullStock(d, p, warehouseId,
                            SortByDistance(WarehousesWithStock(d.stock, p, warehouseId, 1), lat),
                            deficitQuantity, hasRow)
                     ELSE [db |-> d, deficit |-> 0, hasRow |-> hasRow]
       IN IF pulled.deficit > 0
          THEN Thrown(pulled.db, "insufficient")
          ELSE checkAndMutateStockTx(
                 IF pulled.hasRow
                 THEN [pulled.db EXCEPT !.stock = DecrementStock(@, p, warehouseId, remainingQuantity)]
                 ELSE pulled.db,
                 warehouseId, Tail(products), lat)

checkAndMutateStock(warehouseId, products, lat) ==
  /\ UNCHANGED txs
  /\ sweepPc # "writing"
  /\ LET r == checkAndMutateStockTx(DB, warehouseId, products, lat)
     IN /\ SetDB(Transaction(DB, r))
        /\ last' = Op("checkAndMutateStock", r.ok, r.reason, 0, 0)
        /\ allocSnap' = IF r.ok THEN AllocSnap(stock, warehouseId, products) ELSE NoAlloc
  /\ call' = Call(warehouseId, products, lat)
  /\ checkoutSnap' = NoSnap
  /\ UNCHANGED <<warehouses, clock, sweepvars>>

\* ------------------------------------------------------------------- time
Tick ==
  /\ allocSnap' = NoAlloc
  /\ UNCHANGED txs
  /\ clock < MaxClock
  /\ clock' = clock + 1
  /\ last' = Op("tick", TRUE, "none", 0, 0)
  /\ call' = NoCall
  /\ UNCHANGED <<warehouses, dbvars, sweepvars, checkoutSnap>>

\* ---------------------------------------------------------- specification
\* ProductStock tables the runs start from
InitStocks ==
  { (<<1, 1>> :> 1) @@ (<<1, 2>> :> 2) @@ (<<1, 3>> :> 1) @@ (<<2, 2>> :> 1) }

Init ==
  /\ warehouses \in {{}, Warehouses}
  /\ stock \in IF warehouses = {} THEN {<< >>} ELSE InitStocks
  /\ orders = <<>>
  /\ carts = (1 :> [userId |-> 1, isActive |-> TRUE])
               @@ (2 :> [userId |-> 1, isActive |-> FALSE])
  /\ logs = <<>>
  /\ transfers = <<>>
  /\ history = <<>>
  /\ clock = 0
  /\ sweepPc = "idle"
  /\ expiredOrders = <<>>
  /\ sweepIdx = 0
  /\ sweepNow = 0
  /\ canceledCount = 0
  /\ sweepFailed = {}
  /\ sweepChanged = {}
  /\ checkoutSnap = NoSnap
  /\ call = NoCall
  /\ txs = [t \in TxIds |-> IdleTx]
  /\ allocSnap = NoAlloc
  /\ last = Op("init", TRUE, "none", 0, 0)

\* checkout, cancellation, expiry sweep and payment proof
Next ==
  \/ \E id \in CheckoutUsers, body \in Bodies : handleCheckout(id, body)
  \/ \E u \in Users, o \in OrderIds, src \in Sources : cancelOrder(u, o, src)
  \/ SweepRead
  \/ SweepOrder
  \/ SweepReturn
  \/ \E u \in Users, o \in OrderIds, f \in Files : uploadPaymentProof(u, o, f)
  \/ Tick

Spec == Init /\ [][Next]_vars


\* every operation, the stock check included, on one order
AllBodies == {b \in Bodies : Len(b.orderItems) = 1 /\ b.latitude = 0}
AllProducts == {ps \in ItemLists : Len(ps) = 1}

NextAll ==
  \/ \E id \in CheckoutUsers, body \in AllBodies :
       Len(orders) < MaxAllOrders /\ handleCheckout(id, body)
  \/ \E u \in Users, o \in OrderIds, src \in Sources : cancelOrder(u, o, src)
  \/ SweepRead
  \/ SweepOrder
  \/ SweepReturn
  \/ \E u \in Users, o \in OrderIds, f \in Files : uploadPaymentProof(u, o, f)
  \/ \E w \in warehouses \cap CheckoutWarehouses, ps \in AllProducts, lat \in Latitudes :
       checkAndMutateStock(w, ps, lat)
  \/ Tick

SpecAll == Init /\ [][NextAll]_vars

\* stock check and checkout on ProductStock tables with and without a row
\* at the target warehouse
StockTables ==
  InitStocks \cup
  { (<<1, 2>> :> 1) @@ (<<1, 3>> :> 1) @@ (<<2, 1>> :> 1) @@ (<<2, 3>> :> 2) }

InitStock ==
  /\ warehouses = Warehouses
  /\ stock \in StockTables
  /\ orders = <<>>
  /\ carts = (1 :> [userId |-> 1, isActive |-> TRUE])
               @@ (2 :> [userId |-> 1, isActive |-> FALSE])
  /\ logs = <<>>
  /\ transfers = <<>>
  /\ history = <<>>
  /\ clock = 0
  /\ sweepPc = "idle"
  /\ expiredOrders = <<>>
  /\ sweepIdx = 0
  /\ sweepNow = 0
  /\ canceledCount = 0
  /\ sweepFailed = {}
  /\ sweepChanged = {}
  /\ checkoutSnap = NoSnap
  /\ call = NoCall
  /\ txs = [t \in TxIds |-> IdleTx]
  /\ allocSnap = NoAlloc
  /\ last = Op("init", TRUE, "none", 0, 0)

\* checkouts of the active cart, placed from coordinate 0
StockBodies == {b \in Bodies : b.cartId \in CartIds /\ b.latitude = 0}

NextStock ==
  \/ /\ Len(orders) < MaxAllOrders
     /\ \E id \in CheckoutUsers, body \in StockBodies : handleCheckout(id, body)
  \/ \E w \in warehouses, ps \in ItemLists, lat \in Latitudes :
       checkAndMutateStock(w, ps, lat)

SpecStock == InitStock /\ [][NextStock]_vars

\* checkout bodies whose paymentStatus and cartId the client chose: any status
\* of the schema the tests use, any cart of the user
WideStatuses == {"PENDING", "PAID"}
WideBodies ==
  [paymentStatus : WideStatuses, warehouseId : CheckoutWarehouses,
   cartId : DOMAIN carts, orderItems : {ps \in ItemLists : Len(ps) = 1},
   latitude : {0}]

NextBody ==
  \/ \E id \in CheckoutUsers, body \in WideBodies : handleCheckout(id, body)
  \/ \E u \in CheckoutUsers, o \in OrderIds, src \in Sources : cancelOrder(u, o, src)
  \/ SweepRead
  \/ SweepOrder
  \/ SweepReturn
  \/ Tick

SpecBody == InitStock /\ [][NextBody]_vars

\* checkout of one item, cancellation, payment proof and time, with
\* cancelExpiredOrders run again and again: a run that can start does start,
\* and a run that started goes through its orders and returns
NextSweep ==
  \/ \E id \in CheckoutUsers, body \in AllBodies :
       Len(orders) < MaxAllOrders /\ handleCheckout(id, body)
  \/ \E u \in CheckoutUsers, o \in OrderIds, src \in Sources : cancelOrder(u, o, src)
  \/ SweepRead
  \/ SweepOrder
  \/ SweepReturn
  \/ \E u \in CheckoutUsers, o \in OrderIds, f \in Files : uploadPaymentProof(u, o, f)
  \/ Tick

SpecSweep ==
  /\ InitStock
  /\ [][NextSweep]_vars
  /\ WF_vars(SweepRead)
  /\ WF_vars(SweepOrder)
  /\ WF_vars(SweepReturn)

\* two checkouts at the same time, on the same warehouse
ConcBodies == {b \in Bodies : b.latitude = 0}

NextConc ==
  \/ \E t \in TxIds, id \in CheckoutUsers, body \in ConcBodies : TxBegin(t, id, body)
  \/ \E t \in TxIds : TxItem(t)
  \/ \E t \in TxIds : TxEnd(t)

SpecConc == InitStock /\ [][NextConc]_vars

\* ================================================================ claims
\* stock of a product at a warehouse, 0 when the row does not exist
StockAt(st, p, w) == IF HasRow(st, p, w) THEN st[<<p, w>>] ELSE 0

RECURSIVE SumQty(_, _)
SumQty(items, p) ==
  IF items = <<>> THEN 0
  ELSE (IF Head(items).productId = p THEN Head(items).quantity ELSE 0)
         + SumQty(Tail(items), p)

RECURSIVE CountEntries(_, _, _)
CountEntries(h, type, o) ==
  IF h = <<>> THEN 0
  ELSE (IF Head(h).type = type /\ Head(h).orderId = o THEN 1 ELSE 0)
         + CountEntries(Tail(h), type, o)

\* C1: between operations every ProductStock row has stock >= 0
C1_StockNeverNegative ==
  sweepPc # "writing" => \A k \in DOMAIN stock : stock[k] >= 0

\* C2: a handleCheckout that fails (no warehouse, or a statement of the
\* transaction throws) leaves orders, carts, stock, logs, transfers and
\* history exactly as they were
C2_CheckoutAllOrNothing ==
  [][(last'.op = "handleCheckout" /\ ~last'.ok) => UNCHANGED dbvars]_vars

\* a checkout failed on a missing cart, after its transaction had created
\* the order and decremented stock
C2_Witness ==
  /\ last.op = "handleCheckout"
  /\ ~last.ok
  /\ last.reason = "cart"
  /\ warehouses # {}

\* C3: right after a successful handleCheckout, for every product of the
\* order the stock at the order's warehouse is the stock before the call
\* minus the ordered quantities of that product, a missing row counting as 0
C3_CheckoutDecrementsStock ==
  (checkoutSnap.orderId # 0 /\ ~checkoutSnap.closed /\ last.op = "handleCheckout") =>
    LET o == orders[checkoutSnap.orderId]
    IN \A p \in Products :
         SumQty(o.items, p) > 0 =>
           StockAt(stock, p, o.warehouseId)
             = StockAt(checkoutSnap.stock, p, o.warehouseId) - SumQty(o.items, p)

\* C4: when the order of the latest checkout is cancelled (by cancelOrder or
\* by the sweep) with no operation in between, the ProductStock table is the
\* one before that checkout
C4_CheckoutCancelRoundTrip ==
  checkoutSnap.closed => stock = checkoutSnap.stock

\* an order whose checkout decremented an existing row was cancelled right
\* after its checkout
C4_Witness ==
  /\ checkoutSnap.closed
  /\ last.op \in {"cancelOrder", "sweepOrder"}
  /\ \E i \in 1..Len(orders[checkoutSnap.orderId].items) :
       HasRow(stock, orders[checkoutSnap.orderId].items[i].productId,
              orders[checkoutSnap.orderId].warehouseId)

\* C5: cancelOrder on an order that does not exist, is not PENDING, has a
\* payment proof or whose cart belongs to another user fails and leaves
\* every table unchanged
C5_CancelRejectedNoEffect ==
  [][(/\ last'.op = "cancelOrder"
      /\ \/ last'.orderId \notin 1..Len(orders)
         \/ orders[last'.orderId].paymentStatus # "PENDING"
         \/ orders[last'.orderId].paymentProof # "NULL"
         \/ carts[orders[last'.orderId].cartId].userId # last'.userId)
     => (~last'.ok /\ UNCHANGED dbvars)]_vars

\* cancelOrder was refused by its owner on an order that is PAID or CANCELED
C5_Witness ==
  /\ last.op = "cancelOrder"
  /\ ~last.ok
  /\ last.orderId \in 1..Len(orders)
  /\ orders[last.orderId].paymentStatus \in {"PAID", "CANCELED"}
  /\ carts[orders[last.orderId].cartId].userId = last.userId

\* C6: no order has more than one REFUND entry in TransactionHistory
C6_NoDoubleCancel ==
  \A o \in 1..Len(orders) : CountEntries(history, "REFUND", o) <= 1

\* C7: every change of paymentStatus follows
\* PENDING -> {PAID, CANCELED}, PAID -> {SHIPPED, DELIVERED, CANCELED}
AllowedTransitions ==
  {<<"PENDING", "PAID">>, <<"PENDING", "CANCELED">>, <<"PAID", "SHIPPED">>,
   <<"PAID", "DELIVERED">>, <<"PAID", "CANCELED">>}

C7_StatusStateMachine ==
  [][\A o \in 1..Len(orders) :
       orders'[o].paymentStatus # orders[o].paymentStatus =>
         <<orders[o].paymentStatus, orders'[o].paymentStatus>> \in AllowedTransitions]_vars

\* C8: an order the sweep sets to CANCELED is, right before that write,
\* PENDING without payment proof and expired before the sweep started
C8_SweepOnlyCancelsEligible ==
  [][last'.op = "sweepOrder" =>
       /\ orders[last'.orderId].paymentStatus = "PENDING"
       /\ orders[last'.orderId].paymentProof = "NULL"
       /\ orders[last'.orderId].expirePayment < sweepNow]_vars

\* C9: when the reversal of an order fails in the sweep, that order, its
\* cart, the stock, the logs and the history are left as they were
C9_SweepReversalAtomic ==
  [][(last'.op = "sweepOrder" /\ ~last'.ok) => UNCHANGED dbvars]_vars

\* C10: a sweep goes through every order it read: each reversal that does
\* not fail restores the stock of the order's items and appends its REFUND,
\* and when the sweep returns every such order is CANCELED by SYSTEM with
\* its cart active, also when the reversal of another order failed
C10_SweepContinuesAfterFailure ==
  [][/\ (last'.op = "sweepOrder" /\ last'.ok) =>
          (LET o == orders[last'.orderId]
           IN /\ \A p \in Products, w \in Warehouses :
                   StockAt(stock', p, w) =
                     StockAt(stock, p, w)
                       + (IF w = o.warehouseId THEN SumQty(o.items, p) ELSE 0)
              /\ CountEntries(history', "REFUND", last'.orderId)
                   = CountEntries(history, "REFUND", last'.orderId) + 1)
     /\ (last'.op = "sweepReturn") =>
          (\A i \in 1..Len(expiredOrders) :
             expiredOrders[i] \notin sweepFailed =>
               /\ orders'[expiredOrders[i]].paymentStatus = "CANCELED"
               /\ orders'[expiredOrders[i]].cancellationSource = "SYSTEM"
               /\ carts'[orders'[expiredOrders[i]].cartId].isActive
               /\ CountEntries(history', "REFUND", expiredOrders[i]) >= 1)]_vars

\* a sweep returned after the reversal of one order failed and the reversal
\* of a later order succeeded
C10_Witness ==
  /\ last.op = "sweepReturn"
  /\ \E i, j \in 1..Len(expiredOrders) :
       /\ i < j
       /\ expiredOrders[i] \in sweepFailed
       /\ expiredOrders[j] \notin sweepFailed
       /\ orders[expiredOrders[j]].paymentStatus = "CANCELED"

\* C11: the number a sweep returns is the number of orders whose
\* paymentStatus that sweep changed to CANCELED
C11_CountEqualsCancelled ==
  last.op = "sweepReturn" =>
    canceledCount = Cardinality({o \in sweepChanged : orders[o].paymentStatus = "CANCELED"})

\* ------------------------------------------------ claims on the stock check
\* rows appended to StockTransferLog and StockTransfer by the step
NewLogs == SubSeq(logs', Len(logs) + 1, Len(logs'))
NewTransfers == SubSeq(transfers', Len(transfers) + 1, Len(transfers'))

RECURSIVE LogSum(_, _, _, _)
LogSum(ls, type, p, w) ==
  IF ls = <<>> THEN 0
  ELSE (IF /\ Head(ls).transactionType = type
           /\ Head(ls).productId = p
           /\ Head(ls).warehouseId = w
        THEN Head(ls).quantity ELSE 0) + LogSum(Tail(ls), type, p, w)

RECURSIVE TransferSum(_, _)
TransferSum(ts, p) ==
  IF ts = <<>> THEN 0
  ELSE (IF Head(ts).productId = p THEN Head(ts).stockRequest ELSE 0)
         + TransferSum(Tail(ts), p)

\* stock of a product summed over the warehouses v..n other than w
RECURSIVE OtherStock(_, _, _, _)
OtherStock(st, p, w, v) ==
  IF v > Cardinality(Warehouses) THEN 0
  ELSE (IF v = w THEN 0 ELSE StockAt(st, p, v)) + OtherStock(st, p, w, v + 1)

AllNonNegative(st) == \A k \in DOMAIN st : st[k] >= 0

\* some requested product has less stock over all warehouses than requested
Insufficient(st, w, ps) ==
  \E i \in 1..Len(ps) :
    StockAt(st, ps[i].productId, w) + OtherStock(st, ps[i].productId, w, 1)
      < ps[i].quantity

\* C12: checkAndMutateStock fails exactly when, for some requested product,
\* the stock of the target plus the stock of all other warehouses is less
\* than the requested quantity, and a failed call leaves every table as it was
C12_InsufficientStockRollsBack ==
  [][last'.op = "checkAndMutateStock" =>
       /\ ~last'.ok <=> Insufficient(stock, call'.warehouseId, call'.products)
       /\ ~last'.ok => UNCHANGED dbvars]_vars

\* C13: a successful checkAndMutateStock from non-negative stocks leaves,
\* for each requested product with local stock L and quantity Q, the target
\* at L - Q with no transfer and no other row touched when L >= Q, and
\* otherwise pulls Q - L in total, leaves the target at 0 and no row negative
C13_AllocationAmounts ==
  [][(last'.op = "checkAndMutateStock" /\ last'.ok /\ AllNonNegative(stock)) =>
       LET w == call'.warehouseId
           ps == call'.products
       IN \A i \in 1..Len(ps) :
           LET p == ps[i].productId
               Q == ps[i].quantity
               L == StockAt(stock, p, w)
           IN IF L >= Q
              THEN /\ StockAt(stock', p, w) = L - Q
                   /\ \A v \in Warehouses \ {w} :
                        /\ HasRow(stock', p, v) = HasRow(stock, p, v)
                        /\ StockAt(stock', p, v) = StockAt(stock, p, v)
                   /\ \A j \in 1..Len(NewTransfers) : NewTransfers[j].productId # p
              ELSE /\ TransferSum(NewTransfers, p) = Q - L
                   /\ OtherStock(stock, p, w, 1) - OtherStock(stock', p, w, 1) = Q - L
                   /\ StockAt(stock', p, w) = 0
                   /\ \A v \in Warehouses : StockAt(stock', p, v) >= 0]_vars

\* no checkout ran, a stock check pulled from another warehouse and succeeded
C13_Witness ==
  /\ last.op = "checkAndMutateStock"
  /\ last.ok
  /\ orders = <<>>
  /\ transfers # <<>>
  /\ \E k \in DOMAIN stock : stock[k] > 0

\* C14: a successful checkAndMutateStock appends, for each pull, one
\* COMPLETED StockTransfer with stockRequest = stockProcess, one OUT log at
\* the source and one IN log at the target with that quantity; each source
\* row falls by what its OUT logs say and the target row rises by what its
\* IN logs say before the requested quantity is taken from it
C14_TransfersBalance ==
  [][(last'.op = "checkAndMutateStock" /\ last'.ok) =>
       LET w == call'.warehouseId
           ps == call'.products
       IN
         /\ Len(NewLogs) = 2 * Len(NewTransfers)
         /\ \A j \in 1..Len(NewTransfers) :
              LET t == NewTransfers[j]
                  out == NewLogs[2 * j - 1]
                  in == NewLogs[2 * j]
              IN /\ t.stockProcess = t.stockRequest
                 /\ t.status = "COMPLETED"
                 /\ t.stockRequest > 0
                 /\ out.transactionType = "OUT"
                 /\ out.warehouseId # w
                 /\ out.productId = t.productId
                 /\ out.quantity = t.stockRequest
                 /\ in.transactionType = "IN"
                 /\ in.warehouseId = w
                 /\ in.productId = t.productId
                 /\ in.quantity = t.stockRequest
         /\ \A p \in Products :
              /\ \A v \in Warehouses \ {w} :
                   StockAt(stock, p, v) - StockAt(stock', p, v)
                     = LogSum(NewLogs, "OUT", p, v)
              /\ StockAt(stock', p, w)
                   = StockAt(stock, p, w) + LogSum(NewLogs, "IN", p, w) - SumQty(ps, p)
              /\ LogSum(NewLogs, "IN", p, w) = TransferSum(NewTransfers, p)]_vars

\* a stock check pulled twice, the first pull into a row it had to create
C14_Witness ==
  /\ last.op = "checkAndMutateStock"
  /\ last.ok
  /\ Len(transfers) >= 2
  /\ Len(logs) >= 4
  /\ logs[1].transactionType = "OUT"
  /\ logs[3].transactionType = "OUT"
  /\ logs[1].productId = logs[3].productId
  /\ logs[1].warehouseId # logs[3].warehouseId

\* OUT logs of a product among the first n appended logs
RECURSIVE PulledBefore(_, _, _)
PulledBefore(ls, n, p) ==
  IF n = 0 THEN 0
  ELSE (IF ls[n].transactionType = "OUT" /\ ls[n].productId = p
        THEN ls[n].quantity ELSE 0) + PulledBefore(ls, n - 1, p)

\* C15: the pulls of a successful checkAndMutateStock go by ascending
\* distance from the requester: a pull takes min(source stock, remaining
\* deficit), never from the target, and only after every strictly nearer
\* other warehouse that held the product is drained to zero
C15_GreedyByDistance ==
  [][(last'.op = "checkAndMutateStock" /\ last'.ok) =>
       LET w == call'.warehouseId
           ps == call'.products
           lat == call'.latitude
       IN
         \A i \in 1..Len(NewLogs) :
           NewLogs[i].transactionType = "OUT" =>
             LET p == NewLogs[i].productId
                 v == NewLogs[i].warehouseId
                 deficit == SumQty(ps, p) - StockAt(stock, p, w)
             IN /\ v # w
                /\ NewLogs[i].quantity =
                     Min(StockAt(stock, p, v), deficit - PulledBefore(NewLogs, i - 1, p))
                /\ \A u \in Warehouses \ {w, v} :
                     (/\ StockAt(stock, p, u) > 0
                      /\ calculateDistance(lat, whLatitude[u])
                           < calculateDistance(lat, whLatitude[v]))
                       => StockAt(stock', p, u) = 0]_vars

\* a stock check drained the nearer source and went on to a farther one
C15_Witness ==
  /\ last.op = "checkAndMutateStock"
  /\ last.ok
  /\ Len(logs) >= 4
  /\ logs[Len(logs) - 3].transactionType = "OUT"
  /\ logs[Len(logs) - 1].transactionType = "OUT"
  /\ logs[Len(logs) - 3].productId = logs[Len(logs) - 1].productId
  /\ logs[Len(logs) - 3].warehouseId # logs[Len(logs) - 1].warehouseId
  /\ StockAt(stock, logs[Len(logs) - 3].productId, logs[Len(logs) - 3].warehouseId) = 0

\* C16: a step that lowers a ProductStock row appends OUT logs for that row
\* that account for the decrement
C16_DecrementsLogged ==
  [][\A k \in DOMAIN stock :
       stock'[k] < stock[k] =>
         LogSum(NewLogs, "OUT", k[1], k[2]) - LogSum(NewLogs, "IN", k[1], k[2])
           = stock[k] - stock'[k]]_vars

\* C17: every order created by handleCheckout has paymentStatus PENDING, no
\* paymentProof and no cancellationSource when it is created, whatever the
\* request body holds
C17_CreatedPending ==
  (last.op = "handleCheckout" /\ last.ok) =>
    /\ orders[last.orderId].paymentStatus = "PENDING"
    /\ orders[last.orderId].paymentProof = "NULL"
    /\ orders[last.orderId].cancellationSource = "NULL"

\* C18: the warehouse recorded on the order of a successful checkout is the
\* warehouse findNearestWarehouse resolved from the coordinate of the request
C18_OrderAtResolvedWarehouse ==
  (last.op = "handleCheckout" /\ last.ok) =>
    orders[last.orderId].warehouseId = findNearestWarehouse(call.latitude)

\* C19: uploadPaymentProof never changes ProductStock, Cart, StockTransfer,
\* StockTransferLog or TransactionHistory; it fails and changes nothing when
\* the order does not exist or its cart is not of userId; on success it
\* changes only paymentProof, paymentStatus (to PAID) and shippedAt of that
\* order
C19_UploadFrame ==
  [][last'.op = "uploadPaymentProof" =>
       LET o == last'.orderId
           u == last'.userId
           owned == o \in 1..Len(orders) /\ carts[orders[o].cartId].userId = u
       IN /\ UNCHANGED <<stock, carts, transfers, logs, history>>
          /\ (~owned => (~last'.ok /\ UNCHANGED dbvars))
          /\ (owned => (/\ last'.ok
                        /\ Len(orders') = Len(orders)
                        /\ \A i \in 1..Len(orders) : i # o => orders'[i] = orders[i]
                        /\ orders'[o].paymentStatus = "PAID"
                        /\ orders'[o].paymentProof # "NULL"
                        /\ orders'[o] = [orders[o] EXCEPT
                                           !.paymentStatus = orders'[o].paymentStatus,
                                           !.paymentProof = orders'[o].paymentProof,
                                           !.shippedAt = orders'[o].shippedAt]))]_vars

\* a proof was uploaded for the order of user 1, and a request of user 2 for
\* an order that is not theirs was refused
C19_Witness ==
  /\ last.op = "uploadPaymentProof"
  /\ ~last.ok
  /\ last.userId = 2
  /\ last.orderId \in 1..Len(orders)
  /\ \E i \in 1..Len(orders) :
       orders[i].paymentStatus = "PAID" /\ orders[i].paymentProof # "NULL"

\* C20: after any sequence of checkouts, cancellations and expiry sweeps no
\* user has more than one cart with isActive = TRUE
C20_OneActiveCart ==
  \A u \in Users :
    Cardinality({c \in DOMAIN carts : carts[c].userId = u /\ carts[c].isActive}) <= 1

\* units of product p ordered at warehouse w by the orders of os
RECURSIVE OrderedAt(_, _, _)
OrderedAt(os, p, w) ==
  IF os = <<>> THEN 0
  ELSE (IF Head(os).warehouseId = w THEN SumQty(Head(os).items, p) ELSE 0)
         + OrderedAt(Tail(os), p, w)

\* the stock row k started with: the tables the runs start from have
\* different rows, and a checkout neither creates nor deletes a row
StartStock(k) == (CHOOSE st \in StockTables : DOMAIN st = DOMAIN stock)[k]

\* C21: once the concurrent checkouts have ended, every ProductStock row holds
\* its initial stock minus the quantities of the committed checkouts of that
\* row, for every interleaving of their statements
C21_NoLostUpdates ==
  (OpenTxs = {}) =>
    \A k \in DOMAIN stock :
      stock[k] = StartStock(k) - OrderedAt(orders, k[1], k[2])

\* two checkouts that were open at the same time both committed, and both
\* decremented the row of product 1 at warehouse 1
C21_Witness ==
  /\ \A t \in TxIds : txs[t].state = "committed" /\ txs[t].overlap
  /\ \A t \in TxIds : SumQty(txs[t].body.orderItems, 1) > 0
  /\ \A t \in TxIds : txs[t].body.warehouseId = 1
  /\ HasRow(stock, 1, 1)

\* C22: a successful checkAndMutateStock whose target warehouse has no
\* ProductStock row for a requested product counts its local stock as 0 (the
\* whole quantity is transferred), creates the row with the first transfer
\* and increments it with the later ones (before the final decrement the row
\* holds what the IN logs say), and adds no other row
C22_RowCreatedOnce ==
  [][(last'.op = "checkAndMutateStock" /\ last'.ok) =>
       LET w == call'.warehouseId
           ps == call'.products
       IN /\ DOMAIN stock' = DOMAIN stock \cup {<<ps[i].productId, w>> : i \in 1..Len(ps)}
          /\ \A i \in 1..Len(ps) :
               LET p == ps[i].productId
                   Q == ps[i].quantity
               IN ~HasRow(stock, p, w) =>
                    /\ TransferSum(NewTransfers, p) = Q
                    /\ stock'[<<p, w>>] + Q = LogSum(NewLogs, "IN", p, w)]_vars

\* warehouse 1, which had no row for product 1, got one from two transfers
C22_Witness ==
  /\ last.op = "checkAndMutateStock"
  /\ last.ok
  /\ call.warehouseId = 1
  /\ call.products = <<[productId |-> 1, quantity |-> 2]>>
  /\ Len(transfers) = 2
  /\ HasRow(stock, 1, 1)
  /\ \E st \in StockTables :
       /\ ~HasRow(st, 1, 1)
       /\ \A k \in DOMAIN st : stock[k] = IF k[1] = 1 THEN 0 ELSE st[k]

\* stock of product p summed over the warehouses from w on
RECURSIVE TotalStock(_, _, _)
TotalStock(st, p, w) ==
  IF w > Cardinality(Warehouses) THEN 0
  ELSE StockAt(st, p, w) + TotalStock(st, p, w + 1)

\* C23: when handleCheckout succeeds right after a successful
\* checkAndMutateStock for the same items at the same warehouse, the stock of
\* each product summed over all warehouses is its sum before the two
\* operations minus the ordered quantity
C23_DeductedOnce ==
  (/\ last.op = "handleCheckout"
   /\ last.ok
   /\ allocSnap.taken
   /\ orders[last.orderId].items = allocSnap.products
   /\ orders[last.orderId].warehouseId = allocSnap.warehouseId) =>
    \A p \in Products :
      TotalStock(stock, p, 1)
        = TotalStock(allocSnap.stock, p, 1) - SumQty(allocSnap.products, p)

\* C24: in every state no transaction is halfway through, each order has
\* exactly one PURCHASE entry of TransactionHistory, exactly one REFUND entry
\* when its paymentStatus is CANCELED and none otherwise
C24_LedgerConsistent ==
  sweepPc # "writing" =>
    \A o \in 1..Len(orders) :
      /\ CountEntries(history, "PURCHASE", o) = 1
      /\ CountEntries(history, "REFUND", o)
           = IF orders[o].paymentStatus = "CANCELED" THEN 1 ELSE 0

\* C25: cancelOrder on an order that is PENDING, has no payment proof and
\* belongs to a cart of the caller succeeds: the order is CANCELED with the
\* given source, its cart is active and a REFUND entry is appended
C25_EligibleCancelSucceeds ==
  [][(/\ last'.op = "cancelOrder"
      /\ Cancellable(DB, last'.userId, last'.orderId)) =>
       LET o == last'.orderId
       IN /\ last'.ok
          /\ orders'[o].paymentStatus = "CANCELED"
          /\ orders'[o].cancellationSource \in Sources
          /\ carts'[orders[o].cartId].isActive
          /\ CountEntries(history', "REFUND", o) = CountEntries(history, "REFUND", o) + 1]_vars

\* order o is PENDING, has no payment proof and its expirePayment is past
OverduePending(o) ==
  /\ o \in 1..Len(orders)
  /\ orders[o].paymentStatus = "PENDING"
  /\ orders[o].paymentProof = "NULL"
  /\ orders[o].expirePayment < clock

\* C26: when cancelExpiredOrders runs again and again, every order that is
\* PENDING without payment proof after its expirePayment eventually is not
\* PENDING any more
C26_OverdueLeavesPending ==
  \A o \in OrderIds :
    OverduePending(o) ~> ~(o \in 1..Len(orders) /\ orders[o].paymentStatus = "PENDING")

\* the sweep cancelled an order that was PENDING after its expirePayment
C26_Witness ==
  /\ last.op = "sweepOrder"
  /\ orders[last.orderId].paymentStatus = "CANCELED"
  /\ orders[last.orderId].cancellationSource = "SYSTEM"
  /\ orders[last.orderId].expirePayment < sweepNow

====
